---- MODULE Spec2Model ----
(***************************************************************************)
(* Incremental discovery pipeline of the property scraper:                 *)
(*   storage/database.py  PropertyStorage  (the ledger, table              *)
(*                        seen_properties, start-up schema migration)      *)
(*   config/sheets.py     load_search_configs                              *)
(*   main.py              PropertyScrapeBot.run_scraping_cycle and         *)
(*                        _process_search_config                           *)
(*                                                                         *)
(* Time is counted in whole days.  CURRENT_TIMESTAMP and datetime('now')   *)
(* both read the clock `now`.                                              *)
(***************************************************************************)
EXTENDS Integers, Sequences, FiniteSets, TLC

VARIABLES
    store,           \* table seen_properties: schema in force, rows in rowid order, index
    storeNew,        \* table seen_properties_new used by the migration
    now,             \* the clock, in days
    ticks,           \* number of clock advances so far
    pc,              \* position of the process
    configs,         \* search_configs of the running cycle
    cfgIdx,          \* position of the for loop over search_configs (1-based)
    properties,      \* result of scraper.scrape_properties for the current config
    propIdx,         \* position of the loop over properties
    new_properties,  \* new_properties of the current config
    notifIdx,        \* position of the loop over new_properties
    outcome,         \* per loaded config of this cycle: pending / ok / skipped / failed
    evictions,       \* number of cleanup_old_properties calls of this cycle
    runLog,          \* keys recorded / notified by the current _process_search_config
    hist,            \* per ledger key: sightings and notifications over the whole run
    test_mode,       \* args.test_mode, handed to TelegramNotifier
    ev               \* the last operation performed and its observable result

vars == <<store, storeNew, now, ticks, test_mode, pc, configs, cfgIdx, properties, propIdx,
          new_properties, notifIdx, outcome, evictions, runLog, hist, test_mode, ev>>

cycleVars == <<configs, cfgIdx, properties, propIdx, new_properties, notifIdx,
               outcome, evictions, runLog>>

-----------------------------------------------------------------------------
(* Bounds *)

MaxTicks == 3        \* clock advances by a step of DaySteps in one behaviour
MaxLongTicks == 1    \* clock advances past the retention horizon in one behaviour
MaxListings == 2     \* listings one scrape returns
MaxBatch == 3        \* listings in one call of filter_by_price
MaxLines == 2        \* text lines of one listing element
MaxElements == 2     \* listing elements of one result page

\* The clock advances by one day or by 29 days, so that ages of 29, 30 and 31
\* days around the retention horizon all occur.
DaySteps == {1, 29}

RetentionDays == 30

Urls == {"u1", "u2"}

-----------------------------------------------------------------------------
(* Search configurations: config/sheets.py *)

\* hashlib.md5(url.encode()).hexdigest()[:8]: distinct digests for distinct urls
md5_8(url) ==
    CASE url = "s1" -> "9a1f03c2"
      [] url = "s2" -> "41bd77e0"
      [] OTHER      -> "d41d8cd9"

\* f"config_{i}_{md5...[:8]}"
config_id(i, url) == <<"config", i, md5_8(url)>>

rowA == [url |-> "s1", site |-> "rightmove", chats |-> <<"k1", "k2">>, active |-> TRUE]
rowB == [url |-> "s2", site |-> "openrent",  chats |-> <<"k1">>,       active |-> TRUE]
rowU == [url |-> "s2", site |-> "zoopla",    chats |-> <<"k1">>,       active |-> TRUE]

\* The contents the configuration sheet can have when a cycle reads it, and
\* the sheet of a deployment whose configuration is never edited.
Sheets == { <<>>, <<rowA>>, <<rowA, rowB>>, <<rowU, rowB>> }
FixedSheet == <<rowA>>

SearchConfig(i, record) ==
    [url |-> record.url, site |-> record.site, telegram_chat_ids |-> record.chats,
     active |-> record.active, config_id |-> config_id(i, record.url)]

\* Variant of the validity test that passes the rows switched off.
load_ignoring_active(records) ==
    LET parsed == [i \in 1..Len(records) |-> SearchConfig(i - 1, records[i])]
        valid(c) == c.url # "" /\ c.site # "" /\ c.telegram_chat_ids # <<>>
    IN  SelectSeq(parsed, valid)

load_search_configs(records) ==
    LET parsed == [i \in 1..Len(records) |-> SearchConfig(i - 1, records[i])]
        valid(c) == c.url # "" /\ c.site # "" /\ c.telegram_chat_ids # <<>> /\ c.active
    IN  SelectSeq(parsed, valid)

SupportedSites == {"openrent", "rightmove"}

\* The config ids under which a cycle can reach the ledger.
ConfigIds ==
    UNION { { c.config_id : c \in { load_search_configs(s)[i] : i \in 1..Len(load_search_configs(s)) }
                                  \cap { x \in { load_search_configs(s)[i] : i \in 1..Len(load_search_configs(s)) } :
                                            x.site \in SupportedSites } }
            : s \in Sheets }

Keys == ConfigIds \X Urls

-----------------------------------------------------------------------------
(* The ledger: storage/database.py *)

Row(u, c, f, l) == [url |-> u, cfg |-> c, first_seen |-> f, last_seen |-> l]

Range(s) == { s[i] : i \in 1..Len(s) }

Min(S) == CHOOSE x \in S : \A y \in S : x <= y
Max(S) == CHOOSE x \in S : \A y \in S : x >= y

EntriesOf(rows, u, c) == { i \in 1..Len(rows) : rows[i].url = u /\ rows[i].cfg = c }

\* Variant of the look-up that finds no entry.
seen_never(rows, u, c) == FALSE

\* SELECT 1 FROM seen_properties WHERE property_url = ? AND search_config_id = ?
is_property_seen(rows, u, c) == EntriesOf(rows, u, c) # {}

\* Variants of the upsert: a plain INSERT on a table without the constraint,
\* an INSERT OR REPLACE, and a conflict target of property_url alone.
mark_plain_insert(rows, u, c, t) == Append(rows, Row(u, c, t, t))

mark_insert_or_replace(rows, u, c, t) ==
    IF EntriesOf(rows, u, c) # {}
    THEN [i \in 1..Len(rows) |->
            IF i \in EntriesOf(rows, u, c) THEN Row(u, c, t, t) ELSE rows[i]]
    ELSE Append(rows, Row(u, c, t, t))

mark_conflict_on_url(rows, u, c, t) ==
    IF \E i \in 1..Len(rows) : rows[i].url = u
    THEN [i \in 1..Len(rows) |->
            IF rows[i].url = u THEN [rows[i] EXCEPT !.last_seen = t] ELSE rows[i]]
    ELSE Append(rows, Row(u, c, t, t))

\* INSERT ... ON CONFLICT(property_url, search_config_id) DO UPDATE SET last_seen = now
mark_property_as_seen(rows, u, c, t) ==
    IF EntriesOf(rows, u, c) # {}
    THEN [i \in 1..Len(rows) |->
            IF i \in EntriesOf(rows, u, c) THEN [rows[i] EXCEPT !.last_seen = t]
            ELSE rows[i]]
    ELSE Append(rows, Row(u, c, t, t))

\* Variant of the eviction with an inclusive comparison.
cleanup_inclusive(rows, days, t) ==
    LET keep(r) == ~(r.last_seen <= t - days) IN SelectSeq(rows, keep)

\* DELETE ... WHERE last_seen < datetime('now', '-days days')
cleanup_old_properties(rows, days, t) ==
    LET keep(r) == ~(r.last_seen < t - days) IN SelectSeq(rows, keep)

-----------------------------------------------------------------------------
(* Start-up: PropertyStorage._init_database and the schema migration *)

NoTable == [schema |-> "none", rows |-> <<>>]
NoNewTable == [exists |-> FALSE, rows |-> <<>>]

\* conn.executescript(SCHEMA_SQL): CREATE TABLE IF NOT EXISTS seen_properties
\* with UNIQUE(property_url, search_config_id).  (The index holds no data.)
SCHEMA_SQL(st) ==
    IF st.schema = "none" THEN [schema |-> "composite", rows |-> <<>>] ELSE st

\* s[i:].startswith(sub), i counted from 1
StartsWithAt(s, i, sub) ==
    /\ i + Len(sub) - 1 <= Len(s)
    /\ SubSeq(s, i, i + Len(sub) - 1) = sub

\* sub in s
Contains(s, sub) == \E i \in 1..Len(s) : StartsWithAt(s, i, sub)

\* s.replace(old, new): every occurrence, left to right, not overlapping
RECURSIVE replace(_, _, _)
replace(s, old, new) ==
    LET found == { i \in 1..Len(s) : StartsWithAt(s, i, old) }
    IN  IF found = {} THEN s
        ELSE LET i == CHOOSE k \in found : \A j \in found : k <= j
             IN  SubSeq(s, 1, i - 1) \o new
                   \o replace(SubSeq(s, i + Len(old), Len(s)), old, new)

\* The text sqlite_master keeps for a table declared with the composite
\* UNIQUE, by SCHEMA_SQL or by the migration: the CREATE TABLE statement,
\* written here with the two columns of the key and the table constraint.
composite_create_sql ==
    <<"C", "R", "E", "A", "T", "E", " ", "T", "A", "B", "L", "E", " ", "s",
      "e", "e", "n", "_", "p", "r", "o", "p", "e", "r", "t", "i", "e", "s",
      " ", "(", "\n", "p", "r", "o", "p", "e", "r", "t", "y", "_", "u", "r",
      "l", " ", "T", "E", "X", "T", " ", "N", "O", "T", " ", "N", "U", "L",
      "L", ",", "\n", "s", "e", "a", "r", "c", "h", "_", "c", "o", "n", "f",
      "i", "g", "_", "i", "d", " ", "T", "E", "X", "T", " ", "N", "O", "T",
      " ", "N", "U", "L", "L", ",", "\n", "U", "N", "I", "Q", "U", "E", "(",
      "p", "r", "o", "p", "e", "r", "t", "y", "_", "u", "r", "l", ",", " ",
      "s", "e", "a", "r", "c", "h", "_", "c", "o", "n", "f", "i", "g", "_",
      "i", "d", ")", "\n", ")">>

\* The text kept for a table of the earlier release, whose only UNIQUE is
\* the table constraint on property_url.
legacy_create_sql ==
    <<"C", "R", "E", "A", "T", "E", " ", "T", "A", "B", "L", "E", " ", "s",
      "e", "e", "n", "_", "p", "r", "o", "p", "e", "r", "t", "i", "e", "s",
      " ", "(", "\n", "p", "r", "o", "p", "e", "r", "t", "y", "_", "u", "r",
      "l", " ", "T", "E", "X", "T", " ", "N", "O", "T", " ", "N", "U", "L",
      "L", ",", "\n", "s", "e", "a", "r", "c", "h", "_", "c", "o", "n", "f",
      "i", "g", "_", "i", "d", " ", "T", "E", "X", "T", ",", "\n", "U", "N",
      "I", "Q", "U", "E", "(", "p", "r", "o", "p", "e", "r", "t", "y", "_",
      "u", "r", "l", ")", "\n", ")">>

\* SELECT sql FROM sqlite_master WHERE type='table' AND
\* name='seen_properties': the text, or no row.
create_sql(st) ==
    CASE st.schema = "composite" -> composite_create_sql
      [] st.schema = "legacy"    -> legacy_create_sql
      [] OTHER                   -> <<>>

\* The texts _needs_migration looks for.
UNIQUE_composite ==
    <<"U", "N", "I", "Q", "U", "E", "(", "p", "r", "o", "p", "e", "r", "t",
      "y", "_", "u", "r", "l", ",", " ", "s", "e", "a", "r", "c", "h", "_",
      "c", "o", "n", "f", "i", "g", "_", "i", "d", ")">>
UNIQUE_property_url ==
    <<"U", "N", "I", "Q", "U", "E", "(", "p", "r", "o", "p", "e", "r", "t",
      "y", "_", "u", "r", "l", ")">>

\* Variant of the detection that looks for the opening of the constraint,
\* "UNIQUE(property_url", in place of the whole of it.
needs_migration_by_prefix(sql) ==
    IF sql = <<>> THEN FALSE
    ELSE Contains(replace(sql, <<" ">>, <<>>),
                  <<"U", "N", "I", "Q", "U", "E", "(", "p", "r", "o", "p", "e",
                    "r", "t", "y", "_", "u", "r", "l">>)

\* if not row or not row[0]: return False; then the two `in` tests on
\* create_sql.replace(" ", "").  The first looks for a text that holds a
\* space in a text that holds none.
needs_migration_of(sql) ==
    IF sql = <<>> THEN FALSE
    ELSE LET squeezed == replace(sql, <<" ">>, <<>>)
         IN  IF Contains(squeezed, UNIQUE_composite) THEN FALSE
             ELSE Contains(squeezed, UNIQUE_property_url)

\* The answer for each text sqlite_master can hold, computed once.
needs_migration_by_schema ==
    [t \in {"none", "composite", "legacy"} |->
        needs_migration_of(create_sql([schema |-> t]))]

\* _needs_migration(conn), on the table the connection finds
_needs_migration(st) == needs_migration_by_schema[st.schema]

\* Variant of the copy that selects only the groups of several rows
\* (HAVING COUNT(*) > 1).
group_duplicates_only(rows) ==
    LET several(r) == Cardinality({ i \in 1..Len(rows) :
                                      rows[i].url = r.url /\ rows[i].cfg = r.cfg }) > 1
    IN  SelectSeq(rows, several)

\* SELECT property_url, search_config_id, MIN(first_seen), MAX(last_seen)
\* FROM seen_properties GROUP BY property_url, search_config_id
\* (one row per group, groups taken in order of first appearance).
GroupBy(rows) ==
    LET tagged == [i \in 1..Len(rows) |-> [i |-> i, r |-> rows[i]]]
        first(t) == \A j \in 1..(t.i - 1) :
                        ~(rows[j].url = t.r.url /\ rows[j].cfg = t.r.cfg)
        heads == SelectSeq(tagged, first)
        group(r) == { rows[i] : i \in EntriesOf(rows, r.url, r.cfg) }
    IN  [k \in 1..Len(heads) |->
            Row(heads[k].r.url, heads[k].r.cfg,
                Min({ g.first_seen : g \in group(heads[k].r) }),
                Max({ g.last_seen : g \in group(heads[k].r) }))]

\* INSERT OR IGNORE INTO a table that is UNIQUE(property_url, search_config_id)
RECURSIVE InsertOrIgnore(_, _)
InsertOrIgnore(target, src) ==
    IF src = <<>> THEN target
    ELSE LET r == Head(src)
         IN  InsertOrIgnore(IF is_property_seen(target, r.url, r.cfg) THEN target
                            ELSE Append(target, r),
                            Tail(src))

\* The stores a process can find on disk when it first starts: no database,
\* or a table created by the earlier release, UNIQUE(property_url).
cfgA == config_id(0, "s1")
cfgB == config_id(1, "s2")

InitialStores ==
    { NoTable,
      [schema |-> "legacy", rows |-> <<>>],
      [schema |-> "legacy", rows |-> <<Row("u1", cfgA, 0, 0)>>],
      [schema |-> "legacy", rows |-> <<Row("u1", cfgA, 0, 0), Row("u2", cfgB, 0, 0)>>] }

\* History of a key, kept for the properties only.
\*   never   no notification was attempted for it
\*   live    notified, and since then sighted at intervals shorter than the
\*           retention horizon, the last time at `at`
\*   lapsed  notified, then unsighted for the retention horizon or longer
\*   again   notified a second time while live
NoHist == [k \in Keys |-> [status |-> "never", at |-> -1]]
NoRun == [recorded |-> {}, notified |-> {}]

Init ==
    /\ store \in InitialStores
    /\ storeNew = NoNewTable
    /\ now = 0
    /\ ticks = 0
    /\ pc = "init"
    /\ configs = <<>>
    /\ cfgIdx = 0
    /\ properties = <<>>
    /\ propIdx = 0
    /\ new_properties = <<>>
    /\ notifIdx = 0
    /\ outcome = <<>>
    /\ evictions = 0
    /\ runLog = NoRun
    /\ hist = NoHist
    /\ test_mode = FALSE
    /\ ev = [op |-> "none"]

ResetCycle ==
    /\ configs' = <<>>
    /\ cfgIdx' = 0
    /\ properties' = <<>>
    /\ propIdx' = 0
    /\ new_properties' = <<>>
    /\ notifIdx' = 0
    /\ outcome' = <<>>
    /\ evictions' = 0
    /\ runLog' = NoRun

\* _init_database up to the decision to migrate
InitDatabase ==
    /\ pc = "init"
    /\ store' = SCHEMA_SQL(store)
    /\ LET migrate == _needs_migration(store')
       IN  /\ pc' = IF migrate THEN "mig_create" ELSE "idle"
           /\ ev' = [op |-> "init", migrate |-> migrate]
    /\ UNCHANGED <<storeNew, now, ticks, test_mode, hist>>
    /\ UNCHANGED cycleVars

\* _migrate_unique_constraint.  cur.executescript commits the transaction
\* opened by BEGIN IMMEDIATE before it runs its script, so every statement
\* below is committed on its own.
MigCreate ==
    /\ pc = "mig_create"
    /\ storeNew' = IF storeNew.exists THEN storeNew ELSE [exists |-> TRUE, rows |-> <<>>]
    /\ pc' = "mig_copy"
    /\ ev' = [op |-> "mig_create"]
    /\ UNCHANGED <<store, now, ticks, test_mode, hist>>
    /\ UNCHANGED cycleVars

MigCopy ==
    /\ pc = "mig_copy"
    /\ storeNew' = [storeNew EXCEPT !.rows = InsertOrIgnore(storeNew.rows, GroupBy(store.rows))]
    /\ pc' = "mig_drop"
    /\ ev' = [op |-> "mig_copy"]
    /\ UNCHANGED <<store, now, ticks, test_mode, hist>>
    /\ UNCHANGED cycleVars

MigDrop ==
    /\ pc = "mig_drop"
    /\ store' = NoTable
    /\ pc' = "mig_rename"
    /\ ev' = [op |-> "mig_drop"]
    /\ UNCHANGED <<storeNew, now, ticks, test_mode, hist>>
    /\ UNCHANGED cycleVars

\* ALTER TABLE ... RENAME, then CREATE INDEX and conn.commit()
MigRename ==
    /\ pc = "mig_rename"
    /\ store' = [schema |-> "composite", rows |-> storeNew.rows]
    /\ storeNew' = NoNewTable
    /\ pc' = "idle"
    /\ ev' = [op |-> "mig_rename"]
    /\ UNCHANGED <<now, ticks, test_mode, hist>>
    /\ UNCHANGED cycleVars

\* Variant of main that logs the error of the start-up and goes on.
startup_error_logged(at) == "idle"

\* An exception of PropertyStorage() leaves PropertyScrapeBot.__init__ and is
\* caught in main: logger.error("Fatal error"), sys.exit(1).
OnStartupError(at) == "exited"

\* _init_database or _migrate_unique_constraint raises (sqlite3.Error) at the
\* statement the process has reached; what is committed stays.
StartupRaises ==
    /\ pc \in {"init", "mig_create", "mig_copy", "mig_drop", "mig_rename"}
    /\ pc' = OnStartupError(pc)
    /\ ev' = [op |-> "startup_failed", at |-> pc]
    /\ ResetCycle
    /\ UNCHANGED <<store, storeNew, now, ticks, test_mode, hist>>

\* The process is stopped (killed, crashed, shut down) at any point and is
\* started again later: only the database survives.
Stop ==
    /\ pc # "init"
    /\ pc' = "init"
    /\ ev' = [op |-> "stop"]
    /\ ResetCycle
    /\ UNCHANGED <<store, storeNew, now, ticks, test_mode, hist>>

\* The clock counts days and a cycle takes minutes: the clock advances
\* between cycles (and between direct calls of the ledger).
TickBy(steps, bound) ==
    /\ ticks < bound
    /\ pc = "idle"
    /\ \E d \in steps : now' = now + d
    /\ ticks' = ticks + 1
    /\ UNCHANGED <<store, storeNew, pc, hist, test_mode, ev>>
    /\ UNCHANGED cycleVars

Tick == TickBy(DaySteps, MaxTicks)

LongTick == TickBy({RetentionDays + 1}, MaxLongTicks)

-----------------------------------------------------------------------------
(* The ledger used directly through its public operations *)

ApiKeys == { <<"u1", cfgA>>, <<"u1", cfgB>> }
ApiDays == {1, RetentionDays}

Call_mark_property_as_seen(u, c) ==
    /\ pc = "idle"
    /\ store' = [store EXCEPT !.rows = mark_property_as_seen(store.rows, u, c, now)]
    /\ ev' = [op |-> "mark", url |-> u, cfg |-> c]
    /\ UNCHANGED <<storeNew, now, ticks, test_mode, pc, hist>>
    /\ UNCHANGED cycleVars

Call_cleanup_old_properties(d) ==
    /\ pc = "idle"
    /\ store' = [store EXCEPT !.rows = cleanup_old_properties(store.rows, d, now)]
    /\ ev' = [op |-> "cleanup", days |-> d,
              ages |-> { now - r.last_seen : r \in Range(store.rows) \ Range(store'.rows) }]
    /\ UNCHANGED <<storeNew, now, ticks, test_mode, pc, hist>>
    /\ UNCHANGED cycleVars

LedgerCall ==
    \/ \E k \in ApiKeys : Call_mark_property_as_seen(k[1], k[2])
    \/ \E d \in ApiDays : Call_cleanup_old_properties(d)

NextLedger ==
    \/ InitDatabase
    \/ MigCreate
    \/ MigCopy
    \/ MigDrop
    \/ MigRename
    \/ StartupRaises
    \/ Stop
    \/ Tick
    \/ LedgerCall

SpecLedger == Init /\ [][NextLedger]_vars

-----------------------------------------------------------------------------
(* One scraping cycle: main.py *)

\* What scraper.scrape_properties can return: up to MaxListings listings,
\* identified by their url, repeats included.
ScrapeResults == UNION { [1..n -> Urls] : n \in 0..MaxListings }

\* Variant of the for loop that leaves it after the first configuration.
loop_once(idx, cfgs) == "evict"

\* Variant of the cycle that returns when the for loop ends.
loop_then_return(idx, cfgs) == IF idx < Len(cfgs) THEN "config" ELSE "done"

\* for config in search_configs: ...; then cleanup_old_properties(30)
NextAfterConfig(idx, cfgs) == IF idx < Len(cfgs) THEN "config" ELSE "evict"

\* Variant of the handler that lets the exception leave the cycle.
error_propagates(idx, cfgs) == "exited"

\* except Exception in _process_search_config: log and return to the loop
OnConfigError(idx, cfgs) == NextAfterConfig(idx, cfgs)

\* Variant of the first loop that leaves the new listing unrecorded.
dedup_without_record(rows, seen, u, c, t) == rows

\* if not is_property_seen(...): new_properties.append(prop); mark_property_as_seen(...)
DedupRows(rows, seen, u, c, t) ==
    IF ~seen THEN mark_property_as_seen(rows, u, c, t) ELSE rows

cur == configs[cfgIdx]

Sighted(h, t) ==
    IF h.status = "live"
    THEN IF t - h.at < RetentionDays THEN [h EXCEPT !.at = t]
         ELSE [status |-> "lapsed", at |-> -1]
    ELSE h

Notified(h, t) ==
    IF h.status \in {"live", "again"} THEN [status |-> "again", at |-> -1]
    ELSE [status |-> "live", at |-> t]

\* search_configs = load_search_configs(sheets_url); return if there is none.
\* (A load that fails returns [], as an empty sheet does.)
LoadConfigsFrom(sheets) ==
    /\ pc = "idle"
    /\ \E sheet \in sheets :
        /\ configs' = load_search_configs(sheet)
        /\ outcome' = [i \in 1..Len(configs') |-> "pending"]
        /\ pc' = IF configs' = <<>> THEN "done" ELSE "config"
        /\ cfgIdx' = IF configs' = <<>> THEN 0 ELSE 1
        /\ ev' = [op |-> "load", n |-> Len(configs')]
    /\ properties' = <<>>
    /\ propIdx' = 0
    /\ new_properties' = <<>>
    /\ notifIdx' = 0
    /\ evictions' = 0
    /\ runLog' = NoRun
    /\ UNCHANGED <<store, storeNew, now, ticks, test_mode, hist>>

LoadConfigs == LoadConfigsFrom(Sheets)

LoadFixedConfigs == LoadConfigsFrom({FixedSheet})

\* _process_search_config returns for the configuration at cfgIdx, with
\* result r; its local variables are gone.
Finish(r, nextpc) ==
    /\ outcome' = [outcome EXCEPT ![cfgIdx] = r]
    /\ pc' = nextpc
    /\ cfgIdx' = cfgIdx + 1
    /\ properties' = <<>>
    /\ propIdx' = 0
    /\ new_properties' = <<>>
    /\ notifIdx' = 0
    /\ runLog' = NoRun

\* _process_search_config on a site without scraper: warn and return
UnsupportedSite ==
    /\ pc = "config"
    /\ cur.site \notin SupportedSites
    /\ Finish("skipped", NextAfterConfig(cfgIdx, configs))
    /\ ev' = [op |-> "unsupported", cfg |-> cur.config_id]
    /\ UNCHANGED <<store, storeNew, now, ticks, test_mode, hist, configs, evictions>>

\* properties = scraper.scrape_properties(config.url); with no property the
\* two loops and the summary are passed over.
Scrape ==
    /\ pc = "config"
    /\ cur.site \in SupportedSites
    /\ \E props \in ScrapeResults :
        /\ IF props = <<>>
           THEN Finish("ok", NextAfterConfig(cfgIdx, configs))
           ELSE /\ properties' = props
                /\ propIdx' = 1
                /\ new_properties' = <<>>
                /\ notifIdx' = 1
                /\ runLog' = NoRun
                /\ pc' = "dedup"
                /\ UNCHANGED <<outcome, cfgIdx>>
        /\ ev' = [op |-> "scrape", cfg |-> cur.config_id, n |-> Len(props)]
    /\ UNCHANGED <<store, storeNew, now, ticks, test_mode, hist, configs, evictions>>

\* An exception raised inside _process_search_config is caught by its handler.
ConfigFails(what) ==
    /\ Finish("failed", OnConfigError(cfgIdx, configs))
    /\ ev' = [op |-> "error", cfg |-> cur.config_id, during |-> what]
    /\ UNCHANGED <<store, storeNew, now, ticks, test_mode, hist, configs, evictions>>

ScrapeRaises ==
    /\ pc = "config"
    /\ cur.site \in SupportedSites
    /\ ConfigFails("scrape")

\* Variant that goes to the summary whatever the first loop found.
fan_out_always(idx, props, newp) ==
    IF idx < Len(props) THEN "dedup" ELSE "summary"

\* After a turn of the loop over properties: the next turn; after the last
\* one, `if new_properties:` opens the fan-out, else the function returns.
AfterDedup(idx, props, newp) ==
    IF idx < Len(props) THEN "dedup"
    ELSE IF newp # <<>> THEN "notify" ELSE "return"

\* One turn of the loop over properties (track: keep the key's history).
DedupStep(track) ==
    /\ pc = "dedup"
    /\ LET u == properties[propIdx]
           c == cur.config_id
           seen == is_property_seen(store.rows, u, c)
           newp == IF seen THEN new_properties ELSE Append(new_properties, u)
           next == AfterDedup(propIdx, properties, newp)
       IN  /\ store' = [store EXCEPT !.rows = DedupRows(store.rows, seen, u, c, now)]
           /\ hist' = IF track THEN [hist EXCEPT ![<<c, u>>] = Sighted(@, now)] ELSE hist
           /\ IF next = "return"
              THEN Finish("ok", NextAfterConfig(cfgIdx, configs))
              ELSE /\ new_properties' = newp
                   /\ runLog' = IF seen THEN runLog
                                ELSE [runLog EXCEPT !.recorded = @ \cup {<<c, u>>}]
                   /\ propIdx' = propIdx + 1
                   /\ pc' = next
                   /\ UNCHANGED <<outcome, cfgIdx, properties, notifIdx>>
           /\ ev' = [op |-> "dedup", url |-> u, cfg |-> c, new |-> ~seen]
    /\ UNCHANGED <<storeNew, now, ticks, test_mode, configs, evictions>>

Dedup == DedupStep(FALSE)

DedupTracked == DedupStep(TRUE)

\* The ledger raises (sqlite3.Error) in is_property_seen or mark_property_as_seen.
DedupRaises ==
    /\ pc = "dedup"
    /\ ConfigFails("ledger")

\* What the send to one chat id can do: succeed, raise a TelegramError, or
\* raise an exception of another class.
SendResults == {"ok", "TelegramError", "Exception"}

\* Variant of the notifier that sends whatever the mode.
send_ignoring_mode(mode, chats, res) ==
    LET raising == { j \in 1..Len(chats) : res[j] = "Exception" }
        last == IF raising = {} THEN Len(chats) ELSE Min(raising)
    IN  [attempted |-> { chats[j] : j \in 1..last },
         sent |-> { chats[j] : j \in { k \in 1..last : res[k] = "ok" } },
         raised |-> raising # {}]

\* send_property_notification(property, chat_ids, description) when the send
\* to chat_ids[j] does res[j]: with self.test_mode the notification is
\* printed and no send is made; else the chat ids are taken in order, a
\* TelegramError is logged and the loop goes on, any other exception leaves
\* the function at once.
send_property_notification(mode, chats, res) ==
    LET raising == { j \in 1..Len(chats) : res[j] = "Exception" }
        last == IF raising = {} THEN Len(chats) ELSE Min(raising)
    IN  IF mode
        THEN [attempted |-> {}, sent |-> {}, raised |-> FALSE]
        ELSE [attempted |-> { chats[j] : j \in 1..last },
              sent |-> { chats[j] : j \in { k \in 1..last : res[k] = "ok" } },
              raised |-> raising # {}]

\* One turn of the loop over new_properties, no send raising anything but a
\* TelegramError.
NotifyStep(track) ==
    /\ pc = "notify"
    /\ LET u == new_properties[notifIdx]
           c == cur.config_id
           chats == cur.telegram_chat_ids
       IN  /\ \E res \in [1..Len(chats) -> SendResults \ {"Exception"}] :
                LET r == send_property_notification(test_mode, chats, res)
                IN  ev' = [op |-> "notify", url |-> u, cfg |-> c,
                           recorded |-> is_property_seen(store.rows, u, c),
                           attempted |-> r.attempted, sent |-> r.sent]
           /\ hist' = IF track THEN [hist EXCEPT ![<<c, u>>] = Notified(@, now)] ELSE hist
           /\ runLog' = [runLog EXCEPT !.notified = @ \cup {<<c, u>>}]
    /\ notifIdx' = notifIdx + 1
    /\ pc' = IF notifIdx < Len(new_properties) THEN "notify" ELSE "summary"
    /\ UNCHANGED <<store, storeNew, now, ticks, test_mode, configs, cfgIdx, properties, propIdx,
                   new_properties, outcome, evictions>>

Notify == NotifyStep(FALSE)

NotifyTracked == NotifyStep(TRUE)

\* A send raises an exception that is not a TelegramError: it leaves
\* send_property_notification and the loop over new_properties, and is caught
\* by the handler of _process_search_config.
NotifyRaises ==
    /\ pc = "notify"
    /\ LET u == new_properties[notifIdx]
           chats == cur.telegram_chat_ids
       IN  \E res \in [1..Len(chats) -> SendResults] :
                LET r == send_property_notification(test_mode, chats, res)
                IN  /\ r.raised
                    /\ ev' = [op |-> "error", cfg |-> cur.config_id, during |-> "notify",
                              url |-> u, attempted |-> r.attempted,
                              unattempted |->
                                  { <<u, ch>> : ch \in Range(chats) \ r.attempted }
                                  \cup { <<new_properties[n], chats[j]>> :
                                           n \in (notifIdx + 1)..Len(new_properties),
                                           j \in 1..Len(chats) }]
    /\ Finish("failed", OnConfigError(cfgIdx, configs))
    /\ UNCHANGED <<store, storeNew, now, ticks, test_mode, hist, configs, evictions>>

\* send_summary_notification(chat_ids, properties_count, description) when
\* the send to chat_ids[j] does res[j]: nothing is sent for a count of 0;
\* else one send per chat id, as in send_property_notification.
send_summary_notification(mode, chats, properties_count, res) ==
    IF properties_count = 0
    THEN [attempted |-> {}, sent |-> {}, raised |-> FALSE]
    ELSE send_property_notification(mode, chats, res)

\* send_summary_notification(config.telegram_chat_ids, len(new_properties), ...)
Summary ==
    /\ pc = "summary"
    /\ \E res \in [1..Len(cur.telegram_chat_ids) -> SendResults \ {"Exception"}] :
          LET r == send_summary_notification(test_mode, cur.telegram_chat_ids, Len(new_properties), res)
          IN  ev' = [op |-> "summary", cfg |-> cur.config_id,
                     count |-> Len(new_properties), attempted |-> r.attempted]
    /\ Finish("ok", NextAfterConfig(cfgIdx, configs))
    /\ UNCHANGED <<store, storeNew, now, ticks, test_mode, hist, configs, evictions>>

\* A send of the summary raises an exception that is not a TelegramError.
SummaryRaises ==
    /\ pc = "summary"
    /\ new_properties # <<>>
    /\ ~test_mode
    /\ ConfigFails("summary")

\* self.storage.cleanup_old_properties(30)
Evict ==
    /\ pc = "evict"
    /\ store' = [store EXCEPT !.rows = cleanup_old_properties(store.rows, RetentionDays, now)]
    /\ evictions' = evictions + 1
    /\ pc' = "done"
    /\ ev' = [op |-> "cleanup", days |-> RetentionDays,
              ages |-> { now - r.last_seen : r \in Range(store.rows) \ Range(store'.rows) }]
    /\ UNCHANGED <<storeNew, now, ticks, test_mode, hist, configs, cfgIdx, properties, propIdx,
                   new_properties, notifIdx, outcome, runLog>>

\* cleanup_old_properties raises: run_scraping_cycle re-raises, main logs the
\* error and the process exits.
EvictRaises ==
    /\ pc = "evict"
    /\ pc' = "exited"
    /\ ev' = [op |-> "fatal"]
    /\ ResetCycle
    /\ UNCHANGED <<store, storeNew, now, ticks, test_mode, hist>>

\* run_scraping_cycle has returned; the next cycle starts from a clean slate.
CycleDone ==
    /\ pc = "done"
    /\ pc' = "idle"
    /\ ev' = [op |-> "idle"]
    /\ ResetCycle
    /\ UNCHANGED <<store, storeNew, now, ticks, test_mode, hist>>

Next ==
    \/ InitDatabase
    \/ MigCreate
    \/ MigCopy
    \/ MigDrop
    \/ MigRename
    \/ StartupRaises
    \/ Stop
    \/ LongTick
    \/ LoadConfigs
    \/ UnsupportedSite
    \/ Scrape
    \/ ScrapeRaises
    \/ Dedup
    \/ DedupRaises
    \/ Notify
    \/ NotifyRaises
    \/ Summary
    \/ SummaryRaises
    \/ Evict
    \/ EvictRaises
    \/ CycleDone

Spec == Init /\ [][Next]_vars

\* The same program under a configuration sheet that is never edited, with
\* the history of every key kept.
NextFixed ==
    \/ InitDatabase
    \/ MigCreate
    \/ MigCopy
    \/ MigDrop
    \/ MigRename
    \/ StartupRaises
    \/ Stop
    \/ Tick
    \/ LoadFixedConfigs
    \/ Scrape
    \/ ScrapeRaises
    \/ DedupTracked
    \/ DedupRaises
    \/ NotifyTracked
    \/ NotifyRaises
    \/ Summary
    \/ SummaryRaises
    \/ Evict
    \/ EvictRaises
    \/ CycleDone

SpecFixed == Init /\ [][NextFixed]_vars

-----------------------------------------------------------------------------
(* Properties of the ledger *)

UniqueKey(rows) ==
    \A i, j \in 1..Len(rows) :
        (rows[i].url = rows[j].url /\ rows[i].cfg = rows[j].cfg) => i = j

\* C1: in every reachable state, whatever sequence of mark_property_as_seen,
\* cleanup_old_properties, start-up and migration steps led to it, the ledger
\* holds at most one entry for each (property_url, search_config_id) pair.
C1_UniqueEntryPerKey == UniqueKey(store.rows) /\ UniqueKey(storeNew.rows)

\* A state reached by an upsert that hit an existing entry, with other entries
\* around it.
C1_Witness ==
    /\ ev.op = "mark"
    /\ Len(store.rows) = 3
    /\ \E i \in EntriesOf(store.rows, ev.url, ev.cfg) :
            store.rows[i].first_seen < store.rows[i].last_seen

\* C4: mark_property_as_seen called again with the arguments of an earlier
\* call leaves exactly one entry for that key, whose first_seen is the one
\* the first call set and whose last_seen is the time of the second call.
C4_SecondCallRefreshes ==
    [][ \A k \in ApiKeys :
          (Call_mark_property_as_seen(k[1], k[2]) /\ is_property_seen(store.rows, k[1], k[2]))
          => /\ Cardinality(EntriesOf(store'.rows, k[1], k[2])) = 1
             /\ \A i \in EntriesOf(store.rows, k[1], k[2]) :
                    /\ i \in EntriesOf(store'.rows, k[1], k[2])
                    /\ store'.rows[i].first_seen = store.rows[i].first_seen
                    /\ store'.rows[i].last_seen = now ]_vars

\* The second call has run, later than the first.
C4_Witness ==
    /\ ev.op = "mark"
    /\ \E i \in EntriesOf(store.rows, ev.url, ev.cfg) :
            /\ store.rows[i].first_seen < store.rows[i].last_seen
            /\ store.rows[i].last_seen = now

\* C5: recording url u under config c1 records it under c1 only: for every
\* other config c2, is_property_seen(u, c2) and the entry of (u, c2) are what
\* they were, so u recorded under both configs has two independent entries.
C5_ConfigsIndependent ==
    [][ \A k \in ApiKeys :
          Call_mark_property_as_seen(k[1], k[2])
          => /\ is_property_seen(store'.rows, k[1], k[2])
             /\ \A k2 \in ApiKeys :
                  (k2[1] = k[1] /\ k2[2] # k[2])
                  => /\ is_property_seen(store'.rows, k2[1], k2[2])
                          = is_property_seen(store.rows, k2[1], k2[2])
                     /\ { store'.rows[i] : i \in EntriesOf(store'.rows, k2[1], k2[2]) }
                          = { store.rows[i] : i \in EntriesOf(store.rows, k2[1], k2[2]) } ]_vars

\* One url recorded under two configs at different times: the second
\* recording found it unseen and the two entries carry their own timestamps.
C5_Witness ==
    /\ ev.op = "mark"
    /\ \E i \in EntriesOf(store.rows, ev.url, cfgA), j \in EntriesOf(store.rows, ev.url, cfgB) :
            /\ store.rows[i].first_seen # store.rows[j].first_seen
            /\ store.rows[i].last_seen # store.rows[j].last_seen

\* C8: cleanup_old_properties(d) removes exactly the entries last seen more
\* than d days ago and leaves every other entry as it was; with d = 30 an
\* entry last seen 31 days ago goes and one last seen 29 days ago stays.
C8_EvictsExactlyTheStale ==
    [][ \A d \in ApiDays :
          Call_cleanup_old_properties(d)
          => /\ \A r \in Range(store.rows) :
                    (r \in Range(store'.rows)) <=> (now - r.last_seen <= d)
             /\ Range(store'.rows) \subseteq Range(store.rows)
             /\ Len(store'.rows) = Cardinality(Range(store'.rows)) ]_vars

\* cleanup_old_properties(30) has removed an entry aged 31 days and kept one
\* aged 29 days.
C8_Witness ==
    /\ ev.op = "cleanup"
    /\ ev.days = RetentionDays
    /\ (RetentionDays + 1) \in ev.ages
    /\ \E r \in Range(store.rows) : now - r.last_seen = RetentionDays - 1

-----------------------------------------------------------------------------
(* Properties of the cycle *)

Running == pc \in {"config", "dedup", "notify", "summary"}

InLedger(k) == is_property_seen(store.rows, k[2], k[1])

\* C2: under a configuration that is never edited, a listing notified for a
\* config is not notified for it again as long as it keeps being returned at
\* intervals shorter than the retention horizon.
C2_NoRepeatWhileSighted == \A k \in Keys : hist[k].status # "again"

\* C3: every new listing is in the ledger before the first delivery attempt
\* for it: a listing waiting for its notification, and a listing whose
\* notification was attempted (delivered or not), has an entry that this same
\* run of _process_search_config recorded, so a listing whose entry is already
\* there is never notified.
C3_RecordedBeforeNotified ==
    /\ pc \in {"notify", "summary"} =>
            \A i \in 1..Len(new_properties) :
                /\ InLedger(<<cur.config_id, new_properties[i]>>)
                /\ <<cur.config_id, new_properties[i]>> \in runLog.recorded
    /\ \A k \in runLog.notified : k \in runLog.recorded /\ InLedger(k)

\* Every send of a notification has failed, and its listing is recorded.
C3_Witness ==
    /\ ev.op = "notify"
    /\ ev.sent = {}
    /\ ev.recorded
    /\ <<ev.cfg, ev.url>> \in runLog.notified

\* C6: when a cycle's scraper returns a listing whose entry is already in the
\* ledger, the entry's last_seen becomes the time of that sighting.
C6_SightingRefreshes ==
    (ev.op = "dedup" /\ ~ev.new) =>
        \A i \in EntriesOf(store.rows, ev.url, ev.cfg) : store.rows[i].last_seen = now

\* C7: a failure inside _process_search_config for one configuration is
\* caught there: every later configuration of the cycle is still processed
\* (it is done, or the loop is running and has yet to reach it), and a later
\* configuration that gets to its summary has every new listing recorded in
\* the ledger and notified.
C7_FailureIsolated ==
    \A i \in 1..Len(outcome) :
        outcome[i] = "failed" =>
            /\ \A j \in (i + 1)..Len(outcome) :
                  outcome[j] = "pending" => (Running /\ cfgIdx <= j)
            /\ (pc = "summary" /\ cfgIdx > i) =>
                  /\ runLog.recorded = { <<cur.config_id, new_properties[n]>> :
                                            n \in 1..Len(new_properties) }
                  /\ runLog.notified = runLog.recorded
                  /\ \A k \in runLog.recorded : InLedger(k)

\* The first configuration failed, the second recorded and notified a new
\* listing and sent its summary, and the loop is over.
C7_Witness ==
    /\ pc = "evict"
    /\ Len(outcome) = 2
    /\ outcome[1] = "failed"
    /\ outcome[2] = "ok"
    /\ ev.op = "summary"
    /\ ev.count >= 1

\* C9: within a cycle cleanup_old_properties is not invoked while a loaded
\* configuration is unprocessed or being processed, and is invoked at most once.
C9_EvictAfterAllConfigs ==
    /\ evictions <= 1
    /\ (pc = "evict" \/ evictions >= 1) =>
            /\ ~Running
            /\ \A i \in 1..Len(outcome) : outcome[i] # "pending"

\* The eviction of a cycle with two configurations has run.
C9_Witness ==
    /\ ev.op = "cleanup"
    /\ evictions = 1
    /\ Len(configs) = 2

\* C10 as stated: whenever a cycle completes, the eviction has run exactly
\* once in it, whatever the number of configurations loaded, none included.
C10_EveryCycleEvicts == pc = "done" => evictions = 1

\* C10 amended: a cycle that loaded at least one configuration completes with
\* every configuration processed and the eviction run exactly once; a cycle
\* that loaded none returns without evicting.
C10_CycleWithConfigsEvicts ==
    pc = "done" =>
        IF configs # <<>>
        THEN evictions = 1 /\ \A i \in 1..Len(outcome) : outcome[i] # "pending"
        ELSE evictions = 0

\* A cycle over two configurations has completed.
C10_Witness ==
    /\ pc = "done"
    /\ Len(configs) = 2
    /\ evictions = 1
    /\ ev.op = "cleanup"

-----------------------------------------------------------------------------
(* The upsert with its metadata columns: database.py, mark_property_as_seen *)

NULL == "NULL"

Titles == {NULL, "t1", "t2"}
Prices == {NULL, "p1", "p2"}
Locations == {NULL, "l1"}

FullRow(u, c, f, l, title, price, location) ==
    [url |-> u, cfg |-> c, first_seen |-> f, last_seen |-> l,
     title |-> title, price |-> price, location |-> location]

\* COALESCE(excluded.x, x): the first argument that is not NULL
COALESCE(a, b) == IF a # NULL THEN a ELSE b

\* Variant of the upsert that assigns the excluded values as they come.
upsert_overwrite(rows, u, c, title, price, location, t) ==
    IF EntriesOf(rows, u, c) # {}
    THEN [i \in 1..Len(rows) |->
            IF i \in EntriesOf(rows, u, c)
            THEN [rows[i] EXCEPT !.last_seen = t, !.title = title,
                                 !.price = price, !.location = location]
            ELSE rows[i]]
    ELSE Append(rows, FullRow(u, c, t, t, title, price, location))

\* INSERT INTO seen_properties (property_url, search_config_id, title, price, location)
\* VALUES (?, ?, ?, ?, ?) ON CONFLICT(property_url, search_config_id) DO UPDATE SET
\* last_seen = CURRENT_TIMESTAMP, title = COALESCE(excluded.title, title), ...
upsert(rows, u, c, title, price, location, t) ==
    IF EntriesOf(rows, u, c) # {}
    THEN [i \in 1..Len(rows) |->
            IF i \in EntriesOf(rows, u, c)
            THEN [rows[i] EXCEPT !.last_seen = t,
                                 !.title = COALESCE(title, @),
                                 !.price = COALESCE(price, @),
                                 !.location = COALESCE(location, @)]
            ELSE rows[i]]
    ELSE Append(rows, FullRow(u, c, t, t, title, price, location))

\* A process that has started on a fresh database.
Started ==
    /\ store = SCHEMA_SQL(NoTable)
    /\ storeNew = NoNewTable
    /\ now = 0
    /\ ticks = 0
    /\ pc = "idle"
    /\ configs = <<>>
    /\ cfgIdx = 0
    /\ properties = <<>>
    /\ propIdx = 0
    /\ new_properties = <<>>
    /\ notifIdx = 0
    /\ outcome = <<>>
    /\ evictions = 0
    /\ runLog = NoRun
    /\ hist = NoHist

InitFields == Started /\ test_mode = FALSE /\ ev = [op |-> "none"]

Call_upsert(u, c, title, price, location) ==
    /\ pc = "idle"
    /\ store' = [store EXCEPT !.rows = upsert(store.rows, u, c, title, price, location, now)]
    /\ ev' = [op |-> "upsert", url |-> u, cfg |-> c,
              title |-> title, price |-> price, location |-> location,
              hit |-> is_property_seen(store.rows, u, c)]
    /\ UNCHANGED <<storeNew, now, ticks, test_mode, pc, hist>>
    /\ UNCHANGED cycleVars

FieldsCall ==
    \E title \in Titles, price \in Prices, location \in Locations :
        Call_upsert("u1", cfgA, title, price, location)

NextFields ==
    \/ Tick
    \/ FieldsCall

SpecFields == InitFields /\ [][NextFields]_vars

\* C11: an upsert that finds the entry of its key replaces title, price and
\* location by the arguments that are not NULL, leaves a stored value where
\* the argument is NULL, and leaves first_seen as it was.
C11_NullKeepsStoredValue ==
    [][ \A title \in Titles, price \in Prices, location \in Locations :
          (Call_upsert("u1", cfgA, title, price, location)
             /\ is_property_seen(store.rows, "u1", cfgA))
          => \A i \in EntriesOf(store.rows, "u1", cfgA) :
                /\ store'.rows[i].title = (IF title = NULL THEN store.rows[i].title ELSE title)
                /\ store'.rows[i].price = (IF price = NULL THEN store.rows[i].price ELSE price)
                /\ store'.rows[i].location =
                        (IF location = NULL THEN store.rows[i].location ELSE location)
                /\ store'.rows[i].first_seen = store.rows[i].first_seen ]_vars

\* A later upsert with a NULL title and a new price has hit an entry: the
\* stored title is still there and the price is the new one.
C11_Witness ==
    /\ ev.op = "upsert"
    /\ ev.hit
    /\ ev.title = NULL
    /\ ev.price = "p2"
    /\ \E i \in EntriesOf(store.rows, "u1", cfgA) :
            /\ store.rows[i].title = "t1"
            /\ store.rows[i].price = "p2"
            /\ store.rows[i].first_seen < store.rows[i].last_seen

-----------------------------------------------------------------------------
(* Properties of the notification fan-out *)

ChatsOf(c) == UNION { Range(cfg.telegram_chat_ids) : cfg \in { x \in Range(configs) : x.config_id = c } }

\* C12: a send that fails for one chat id, whatever the failure, prevents
\* neither the sends to the remaining chat ids of that listing nor the sends
\* for the remaining new listings: every turn of the loop attempts every chat
\* id, and a failure ends the fan-out with no (listing, chat id) left out.
C12_FailedSendIsolated ==
    /\ ev.op = "notify" => ev.attempted = ChatsOf(ev.cfg)
    /\ (ev.op = "error" /\ ev.during = "notify") => ev.unattempted = {}

\* What does hold: a send that raises a TelegramError is followed by the
\* sends to the remaining chat ids.
C12_TelegramErrorIsolated ==
    ev.op = "notify" => ev.attempted = ChatsOf(ev.cfg)

\* The send to the first chat id raised a TelegramError and the send to the
\* second went through.
C12_Witness ==
    /\ ev.op = "notify"
    /\ ev.attempted = {"k1", "k2"}
    /\ ev.sent = {"k2"}

C13_WitnessNone ==
    /\ ev.op = "dedup"
    /\ ~ev.new
    /\ pc = "evict"
    /\ outcome = <<"ok">>

-----------------------------------------------------------------------------
(* Price texts: scrapers/base.py and scrapers/rightmove.py                 *)
(*                                                                         *)
(* A Python str is a sequence of one-character strings.  A float is an     *)
(* exact rational, counted in units of 1/1200 of a pound, so that pence,   *)
(* and a weekly amount in pence times 52 / 12, are whole numbers.          *)

Digits == {"0", "1", "2", "3", "4", "5", "6", "7", "8", "9"}

DigitVal(c) ==
    CASE c = "0" -> 0 [] c = "1" -> 1 [] c = "2" -> 2 [] c = "3" -> 3 [] c = "4" -> 4
      [] c = "5" -> 5 [] c = "6" -> 6 [] c = "7" -> 7 [] c = "8" -> 8 [] c = "9" -> 9

DigitChar(d) ==
    CASE d = 0 -> "0" [] d = 1 -> "1" [] d = 2 -> "2" [] d = 3 -> "3" [] d = 4 -> "4"
      [] d = 5 -> "5" [] d = 6 -> "6" [] d = 7 -> "7" [] d = 8 -> "8" [] d = 9 -> "9"

\* int(s) for a str of decimal digits
RECURSIVE int(_)
int(s) ==
    IF s = <<>> THEN 0
    ELSE int(SubSeq(s, 1, Len(s) - 1)) * 10 + DigitVal(s[Len(s)])

\* str(n) for a natural number
RECURSIVE str(_)
str(n) == IF n < 10 THEN <<DigitChar(n)>> ELSE str(n \div 10) \o <<DigitChar(n % 10)>>

\* s.strip()
strip(s) ==
    LET inked == { i \in 1..Len(s) : s[i] # " " }
    IN  IF inked = {} THEN <<>> ELSE SubSeq(s, Min(inked), Max(inked))

\* s.lower(), on the letters the price texts are written with
lower(s) ==
    [i \in 1..Len(s) |->
        CASE s[i] = "P" -> "p" [] s[i] = "W" -> "w" [] s[i] = "C" -> "c"
          [] s[i] = "M" -> "m" [] s[i] = "B" -> "b" [] s[i] = "E" -> "e"
          [] s[i] = "D" -> "d" [] s[i] = "F" -> "f" [] s[i] = "L" -> "l"
          [] OTHER -> s[i]]

\* The outcome of computing a price: a float, the ValueError raised by
\* float(), or the `continue` of the loop.
Float(v) == [tag |-> "float", v |-> v]
ValueError == [tag |-> "ValueError", v |-> 0]
Skip == [tag |-> "continue", v |-> 0]

\* n pounds as a float
Pounds(n) == n * 1200

\* float(s): surrounding blanks are ignored; digits with at most one decimal
\* point (two decimals at most in the texts used here) give a number, any
\* other text raises ValueError.
float(s) ==
    LET t == strip(s)
        dots == { i \in 1..Len(t) : t[i] = "." }
        dot == IF dots = {} THEN Len(t) + 1 ELSE Min(dots)
        whole == SubSeq(t, 1, dot - 1)
        frac == SubSeq(t, dot + 1, Len(t))
        cents == IF Len(frac) = 0 THEN 0
                 ELSE IF Len(frac) = 1 THEN 10 * int(frac) ELSE int(SubSeq(frac, 1, 2))
    IN  IF \/ \E i \in 1..Len(t) : t[i] \notin Digits \cup {"."}
           \/ Cardinality(dots) > 1
           \/ Len(t) - Cardinality(dots) = 0
        THEN ValueError
        ELSE Float((int(whole) * 100 + cents) * 12)

\* The end of the longest run of characters of `class` that starts at i
\* (i - 1 when s[i] is not in the class).
RunEnd(s, i, class) ==
    LET stops == { j \in i..Len(s) : s[j] \notin class }
    IN  IF stops = {} THEN Len(s) ELSE Min(stops) - 1

-----------------------------------------------------------------------------
(* filter_by_price: scrapers/base.py *)

\* The str literals of the code.
L_pound == <<"£">>
L_comma == <<",">>
L_space == <<" ">>
L_pcm == <<" ", "p", "c", "m">>
L_pw == <<" ", "p", "w">>
L_pw_any == <<"p", "w">>
L_pp_pcm == <<"p", "p", "/", "p", "c", "m">>
L_not_found == <<"P", "r", "i", "c", "e", " ", "n", "o", "t", " ", "f", "o", "u", "n", "d">>

\* Price texts a scraper can put in Property.price.
T_1000_pcm == <<"£", "1", "0", "0", "0", " ", "p", "c", "m">>
T_1500_pcm == <<"£", "1", "5", "0", "0", " ", "p", "c", "m">>
T_2000_pcm == <<"£", "2", "0", "0", "0", " ", "p", "c", "m">>
T_300_pw == <<"£", "3", "0", "0", " ", "p", "w">>
T_350_pw == <<"£", "3", "5", "0", " ", "p", "w">>
T_1c500_pcm == <<"£", "1", ",", "5", "0", "0", " ", "p", "c", "m">>
T_1500d50_pcm == <<"£", "1", "5", "0", "0", ".", "5", "0", " ", "p", "c", "m">>
T_not_found == <<"P", "r", "i", "c", "e", " ", "n", "o", "t", " ", "f", "o", "u", "n", "d">>
T_1200_per_month == <<"£", "1", "2", "0", "0", " ", "p", "e", "r", " ", "m", "o", "n", "t", "h">>
T_300_PW == <<"£", "3", "0", "0", " ", "P", "W">>
T_pp_1500 == <<"£", "1", "5", "0", "0", " ", "p", "p", "/", "p", "c", "m", " ", "(", "£", "3", "0", "0", "0", " ", "t", "o", "t", "a", "l", "/", "2", "b", "r", ")">>
T_pp_1501 == <<"£", "1", "5", "0", "1", " ", "p", "p", "/", "p", "c", "m", " ", "(", "£", "3", "0", "0", "2", " ", "t", "o", "t", "a", "l", "/", "2", "b", "r", ")">>
T_pp_1c250 == <<"£", "1", ",", "2", "5", "0", " ", "p", "p", "/", "p", "c", "m", " ", "(", "£", "5", ",", "0", "0", "0", " ", "t", "o", "t", "a", "l", "/", "4", "b", "r", ")">>
T_pp_bare == <<"£", " ", "p", "p", "/", "p", "c", "m">>

PriceTexts ==
    { T_1000_pcm, T_1500_pcm, T_2000_pcm, T_300_pw,
      T_350_pw, T_1c500_pcm, T_1500d50_pcm, T_not_found,
      T_1200_per_month, T_300_PW, T_pp_1500, T_pp_1501,
      T_pp_1c250, T_pp_bare }

\* max_price_pp of a scraper: None, or a number of pounds (0 is the default
\* of the configuration sheet).
None == [is_none |-> TRUE, value |-> 0]
Cap(n) == [is_none |-> FALSE, value |-> n]

Caps == {None, Cap(0), Cap(1300), Cap(1500)}

NoMatch == [matched |-> FALSE, group |-> <<>>]

\* re.search(r'£([\d,]+)\s*pp/pcm', price_str): group(1) of the leftmost
\* match, or None
re_search_pp(price_str) ==
    LET matches ==
            { i \in 1..Len(price_str) :
                /\ price_str[i] = "£"
                /\ LET e == RunEnd(price_str, i + 1, Digits \cup {","})
                       w == RunEnd(price_str, e + 1, {" "})
                   IN  e >= i + 1 /\ StartsWithAt(price_str, w + 1, L_pp_pcm) }
    IN  IF matches = {} THEN NoMatch
        ELSE [matched |-> TRUE,
              group |-> SubSeq(price_str, Min(matches) + 1,
                               RunEnd(price_str, Min(matches) + 1, Digits \cup {","}))]

\* Variant of the legacy branch that takes a weekly amount as a monthly one.
weekly_as_monthly(v) == v

\* float(price_clean) * 52 / 12
weekly_to_monthly(v) == (v * 52) \div 12

\* Variant of the comparison that lets a price at the cap fall.
passes_strict(price, cap) == price < cap

\* price <= self.max_price_pp
passes(price, cap) == price <= cap

\* The body of the try block up to the comparison: the price of one
\* property as a float, `continue`, or the ValueError that float raises.
price_of(price_str) ==
    IF Contains(price_str, L_pp_pcm)
    THEN LET pp_match == re_search_pp(price_str)
         IN  IF pp_match.matched THEN float(replace(pp_match.group, L_comma, <<>>))
             ELSE Skip
    ELSE LET price_clean ==
                 replace(replace(replace(replace(price_str, L_pound, <<>>),
                                         L_comma, <<>>), L_pcm, <<>>), L_pw, <<>>)
         IN  IF Contains(lower(price_str), L_pw_any)
             THEN IF float(price_clean).tag = "ValueError" THEN ValueError
                  ELSE Float(weekly_to_monthly(float(price_clean).v))
             ELSE float(price_clean)

\* Variant of the handler that keeps the property whose price raised.
kept_by_default(price, cap) ==
    IF price.tag = "float" THEN passes(price.v, cap) ELSE TRUE

\* One turn of the loop: the property is appended when its price passes; a
\* `continue`, and the ValueError caught by the handler, go to the next one.
kept(price, cap) ==
    IF price.tag = "float" THEN passes(price.v, cap) ELSE FALSE

\* filter_by_price(properties) of a scraper built with max_price_pp
filter_by_price(max_price_pp, props) ==
    IF max_price_pp.is_none \/ max_price_pp.value = 0 THEN props
    ELSE LET keep(prop) == kept(price_of(prop.price), Pounds(max_price_pp.value))
         IN  SelectSeq(props, keep)

Property(url, price) == [url |-> url, price |-> price]

PropertyLists ==
    UNION { [1..n -> { Property("u1", t) : t \in PriceTexts }] : n \in 0..MaxBatch }

\* The calls of filter_by_price that are checked.
FilterInputs ==
    { [op |-> "call", fn |-> "filter_by_price", max_price_pp |-> c, properties |-> p] :
        c \in Caps, p \in PropertyLists }

Call_filter_by_price ==
    /\ ev.op = "call"
    /\ ev.fn = "filter_by_price"
    /\ ev' = [op |-> "filter_by_price", max_price_pp |-> ev.max_price_pp,
              properties |-> ev.properties,
              result |-> filter_by_price(ev.max_price_pp, ev.properties)]
    /\ UNCHANGED <<store, storeNew, now, ticks, test_mode, pc, hist>>
    /\ UNCHANGED cycleVars

-----------------------------------------------------------------------------
(* Per-person price of a Rightmove listing: scrapers/rightmove.py,         *)
(* _extract_property_from_element                                          *)

L_bed == <<"b", "e", "d">>
L_pp_open == <<" ", "p", "p", "/", "p", "c", "m", " ", "(", "£">>
L_total == <<" ", "t", "o", "t", "a", "l", "/">>
L_br == <<"b", "r", ")">>

\* Text lines an element of the result page can show.
N_2000_pcm == <<"£", "2", "0", "0", "0", " ", "p", "c", "m">>
N_3001_pcm == <<"£", "3", "0", "0", "1", " ", "p", "c", "m">>
N_1c500_pcm == <<"£", "1", ",", "5", "0", "0", " ", "p", "c", "m">>
N_300_pw == <<"£", "3", "0", "0", " ", "p", "w">>
N_4 == <<"4">>
N_12 == <<"1", "2">>
N_2_bed == <<"2", " ", "b", "e", "d", " ", "f", "l", "a", "t">>
N_3_Bedroom == <<"3", " ", "B", "e", "d", "r", "o", "o", "m", " ", "H", "o", "u", "s", "e">>
N_0_bed == <<"0", " ", "b", "e", "d", " ", "s", "t", "u", "d", "i", "o">>
N_flat == <<"F", "l", "a", "t", " ", "t", "o", " ", "r", "e", "n", "t">>
N_poa == <<"£", " ", "P", "O", "A">>

LineTexts ==
    { N_2000_pcm, N_3001_pcm, N_1c500_pcm, N_300_pw,
      N_4, N_12, N_2_bed, N_3_Bedroom,
      N_0_bed, N_flat, N_poa }

ElementLines == UNION { [1..n -> LineTexts] : n \in 0..MaxLines }

\* for line in lines: if '£' in line: price = line.strip(); break
first_price_line(lines) ==
    LET priced == { i \in 1..Len(lines) : Contains(lines[i], L_pound) }
    IN  IF priced = {} THEN L_not_found ELSE strip(lines[Min(priced)])

\* line.isdigit()
isdigit(line) == line # <<>> /\ \A i \in 1..Len(line) : line[i] \in Digits

\* re.search(r'(\d+)\s*bed', line): group(1) of the leftmost match
re_search_bed(line) ==
    LET matches ==
            { i \in 1..Len(line) :
                /\ line[i] \in Digits
                /\ StartsWithAt(line, RunEnd(line, RunEnd(line, i, Digits) + 1, {" "}) + 1, L_bed) }
    IN  IF matches = {} THEN NoMatch
        ELSE [matched |-> TRUE,
              group |-> SubSeq(line, Min(matches), RunEnd(line, Min(matches), Digits))]

\* bedrooms = 1; for line in lines: a line that is a number from 1 to 10, or
\* the number in front of "bed", gives the count and ends the loop.
bedrooms_of(lines) ==
    LET telling == { i \in 1..Len(lines) :
                        \/ isdigit(lines[i]) /\ int(lines[i]) >= 1 /\ int(lines[i]) <= 10
                        \/ re_search_bed(lower(lines[i])).matched }
        line == lines[Min(telling)]
    IN  IF telling = {} THEN 1
        ELSE IF isdigit(line) /\ int(line) >= 1 /\ int(line) <= 10 THEN int(line)
        ELSE int(re_search_bed(lower(line)).group)

\* re.search(r'£([\d,]+)', text): group(1) of the leftmost match
re_search_pound(text) ==
    LET matches == { i \in 1..Len(text) :
                        text[i] = "£" /\ RunEnd(text, i + 1, Digits \cup {","}) >= i + 1 }
    IN  IF matches = {} THEN NoMatch
        ELSE [matched |-> TRUE,
              group |-> SubSeq(text, Min(matches) + 1,
                               RunEnd(text, Min(matches) + 1, Digits \cup {","}))]

\* Variant that leaves the total undivided.
undivided(total, bedrooms) == total

\* f"{total_price / bedrooms:.0f}" for whole numbers: the quotient rounded to
\* the nearest whole number, a half going to the even one.
format_0f(total, bedrooms) ==
    LET q == total \div bedrooms
        r == total % bedrooms
    IN  IF 2 * r < bedrooms THEN q
        ELSE IF 2 * r > bedrooms THEN q + 1
        ELSE IF q % 2 = 0 THEN q ELSE q + 1

\* f"£{price_per_person:.0f} pp/pcm (£{total_price:.0f} total/{bedrooms}br)"
canonical(pp, total, bedrooms) ==
    L_pound \o str(pp) \o L_pp_open \o str(total) \o L_total \o str(bedrooms) \o L_br

\* "Calculate price per person if we have a valid price": the price text
\* that goes into the Property, or the ZeroDivisionError that leaves the block.
per_person_price(price, bedrooms) ==
    IF price # L_not_found /\ Contains(price, L_pound)
    THEN LET price_match == re_search_pound(replace(price, L_space, <<>>))
             total_price == float(replace(price_match.group, L_comma, <<>>))
         IN  IF ~price_match.matched \/ total_price.tag = "ValueError"
             THEN [raised |-> FALSE, price |-> price]
             ELSE IF bedrooms = 0
                  THEN [raised |-> TRUE, price |-> price]
                  ELSE [raised |-> FALSE,
                        price |-> canonical(format_0f(total_price.v \div 1200, bedrooms),
                                            total_price.v \div 1200, bedrooms)]
    ELSE [raised |-> FALSE, price |-> price]

\* The price part of _extract_property_from_element for an element showing
\* `lines`.
extract_price(lines) == per_person_price(first_price_line(lines), bedrooms_of(lines))

NormalizeInputs ==
    { [op |-> "call", fn |-> "extract_price", lines |-> l] : l \in ElementLines }

Call_extract_price ==
    /\ ev.op = "call"
    /\ ev.fn = "extract_price"
    /\ ev' = [op |-> "extract_price", lines |-> ev.lines,
              bedrooms |-> bedrooms_of(ev.lines),
              raised |-> extract_price(ev.lines).raised,
              price |-> extract_price(ev.lines).price]
    /\ UNCHANGED <<store, storeNew, now, ticks, test_mode, pc, hist>>
    /\ UNCHANGED cycleVars

-----------------------------------------------------------------------------
(* scrape_properties: scrapers/openrent.py and scrapers/rightmove.py *)

ScrapeCaps == {None, Cap(1000), Cap(1500)}

UrlAt == <<"u1", "u2", "u3">>

\* The lists of up to MaxElements page elements; the link of the i-th, of
\* the kind `href`, leads to the listing UrlAt[i].
ListsOf(outcomes) ==
    UNION { { [i \in 1..n |-> [outcome |-> f[i].outcome, text |-> f[i].text,
                               href |-> f[i].href, url |-> UrlAt[i]]] :
                f \in [1..n -> outcomes] } : n \in 0..MaxElements }

NoProperty == [is_none |-> TRUE, prop |-> Property("", <<>>)]
Extracted(prop) == [is_none |-> FALSE, prop |-> prop]

\* for card in cards: try: prop = extract(card); if prop: properties.append(prop)
\*                     except Exception: continue
collect(got) ==
    LET present(r) == ~r.is_none
        found == SelectSeq(got, present)
    IN  [i \in 1..Len(found) |-> found[i].prop]

\* What the fetch and the parse of an OpenRent result page can do.
OpenRentFetches == {"ok", "RequestException", "Exception"}

\* A card of the OpenRent page: it has no <a href> ("None"), its extraction
\* raises ("raises"), or it shows the price text `text` and a link whose
\* href is a path ("relative") or the empty string ("empty").
OpenRentCards ==
    { [outcome |-> "None", text |-> <<>>, href |-> "none"],
      [outcome |-> "raises", text |-> <<>>, href |-> "relative"] }
    \cup { [outcome |-> "card", text |-> <<t>>, href |-> "relative"] :
            t \in {T_1000_pcm, T_2000_pcm, T_300_pw, T_1200_per_month, N_flat} }
    \cup { [outcome |-> "card", text |-> <<T_1000_pcm>>, href |-> "empty"] }

\* urljoin('https://www.openrent.com', href)
urljoin(href, target) == IF href = "empty" THEN "https://www.openrent.com" ELSE target

_extract_property_data(card) ==
    IF card.outcome # "card" \/ card.href = "none" THEN NoProperty
    ELSE Extracted(Property(urljoin(card.href, card.url),
                            IF Contains(card.text[1], L_pound) THEN card.text[1]
                            ELSE L_not_found))

\* OpenRentScraper.scrape_properties: the list returned, or the exception
\* that leaves the call.
openrent_scrape_properties(max_price_pp, fetch, cards) ==
    IF fetch # "ok" THEN [raised |-> FALSE, result |-> <<>>]
    ELSE IF cards = <<>> THEN [raised |-> FALSE, result |-> <<>>]
    ELSE [raised |-> FALSE,
          result |-> filter_by_price(max_price_pp,
                                     collect([i \in 1..Len(cards) |->
                                                _extract_property_data(cards[i])]))]

\* How far a Rightmove call gets: an exception of _setup_driver, of
\* driver.get, of wait.until (other than TimeoutException) or of
\* find_elements, or the elements found after the wait ("found") or after
\* its TimeoutException.
RightmovePaths ==
    { "_setup_driver raises", "driver.get raises", "wait.until raises",
      "find_elements raises", "found", "TimeoutException" }

\* An element of the Rightmove page: it has neither link nor text ("None"),
\* its extraction raises ("raises"), or it shows the lines `text` and its
\* first link has an href on rightmove.co.uk ("rightmove"), a path
\* ("relative"), an href on another site ("foreign") or there is no link
\* ("none").
RightmoveElements ==
    { [outcome |-> "None", text |-> <<>>, href |-> "none"],
      [outcome |-> "raises", text |-> <<>>, href |-> "rightmove"] }
    \cup { [outcome |-> "element", text |-> l, href |-> "rightmove"] :
            l \in { <<N_2000_pcm, N_4>>, <<N_2000_pcm>>, <<N_300_pw>>,
                    <<N_2_bed, N_3001_pcm>>, <<N_0_bed, N_2000_pcm>>, <<N_flat>> } }
    \cup { [outcome |-> "element", text |-> <<N_2000_pcm, N_4>>, href |-> h] :
            h \in {"relative", "foreign", "none"} }
    \cup { [outcome |-> "element", text |-> <<N_4>>, href |-> "none"] }

L_no_title == <<"N", "o", " ", "t", "i", "t", "l", "e">>

\* url = ""; the href of the first link found is taken
\* `if href and ('rightmove' in href or href.startswith('/'))`.
url_of(href, target) == IF href \in {"rightmove", "relative"} THEN target ELSE ""

\* title = lines[0] if lines else "No title"
title_of(lines) == IF lines # <<>> THEN lines[1] ELSE L_no_title

\* if url or (title != "No title" and len(title) > 5): return Property(...)
\* else, and after any exception, return None
_extract_property_from_element(element) ==
    LET url == url_of(element.href, element.url)
        title == title_of(element.text)
    IN  IF element.outcome # "element" \/ extract_price(element.text).raised THEN NoProperty
        ELSE IF url # "" \/ (title # L_no_title /\ Len(title) > 5)
             THEN Extracted(Property(url, extract_price(element.text).price))
             ELSE NoProperty

\* Variant whose failures leave the call instead of giving an empty list.
scrape_propagating(max_price_pp, path, elements) ==
    IF path \notin {"found", "TimeoutException"} THEN [raised |-> TRUE, result |-> <<>>]
    ELSE [raised |-> FALSE,
          result |-> filter_by_price(max_price_pp,
                                     collect([i \in 1..Len(elements) |->
                                                _extract_property_from_element(elements[i])]))]

\* RightmoveScraper.scrape_properties; the finally clause quits the driver
\* the call started.
rightmove_scrape_properties(max_price_pp, path, elements) ==
    IF path \notin {"found", "TimeoutException"} THEN [raised |-> FALSE, result |-> <<>>]
    ELSE [raised |-> FALSE,
          result |-> filter_by_price(max_price_pp,
                                     collect([i \in 1..Len(elements) |->
                                                _extract_property_from_element(elements[i])]))]

scrape_properties(site, max_price_pp, path, elements) ==
    IF site = "openrent" THEN openrent_scrape_properties(max_price_pp, path, elements)
    ELSE rightmove_scrape_properties(max_price_pp, path, elements)

ScrapeInputs ==
    { [op |-> "call", fn |-> "scrape_properties", site |-> "openrent",
       max_price_pp |-> c, path |-> f, elements |-> e] :
        c \in ScrapeCaps, f \in OpenRentFetches, e \in ListsOf(OpenRentCards) }
    \cup
    { [op |-> "call", fn |-> "scrape_properties", site |-> "rightmove",
       max_price_pp |-> c, path |-> f, elements |-> e] :
        c \in ScrapeCaps, f \in RightmovePaths, e \in ListsOf(RightmoveElements) }

Call_scrape_properties ==
    /\ ev.op = "call"
    /\ ev.fn = "scrape_properties"
    /\ LET r == scrape_properties(ev.site, ev.max_price_pp, ev.path, ev.elements)
       IN  ev' = [op |-> "scrape_properties", site |-> ev.site,
                  max_price_pp |-> ev.max_price_pp, path |-> ev.path,
                  elements |-> ev.elements, raised |-> r.raised, result |-> r.result]
    /\ UNCHANGED <<store, storeNew, now, ticks, test_mode, pc, hist>>
    /\ UNCHANGED cycleVars

-----------------------------------------------------------------------------
(* Two loads of the configuration sheet: config/sheets.py *)

\* The sheets made of the rows rowA and rowB, each at most once, in any order:
\* between two loads rows can be inserted, removed and reordered.
EditedSheets ==
    { s \in UNION { [1..n -> {rowA, rowB}] : n \in 0..2 } :
        \A i, j \in 1..Len(s) : s[i] = s[j] => i = j }

ReloadInputs ==
    { [op |-> "call", fn |-> "load_search_configs", records |-> s, records_after |-> t] :
        s \in EditedSheets, t \in EditedSheets }

Call_load_search_configs ==
    /\ ev.op = "call"
    /\ ev.fn = "load_search_configs"
    /\ ev' = [op |-> "load_search_configs",
              records |-> ev.records, records_after |-> ev.records_after,
              configs |-> load_search_configs(ev.records),
              configs_after |-> load_search_configs(ev.records_after)]
    /\ UNCHANGED <<store, storeNew, now, ticks, test_mode, pc, hist>>
    /\ UNCHANGED cycleVars

-----------------------------------------------------------------------------
(* The functions called on their own *)

InitPrice ==
    Started /\ test_mode = FALSE /\ ev \in FilterInputs \cup NormalizeInputs \cup ScrapeInputs \cup ReloadInputs

NextPrice ==
    \/ Call_filter_by_price
    \/ Call_extract_price
    \/ Call_scrape_properties
    \/ Call_load_search_configs

SpecPrice == InitPrice /\ [][NextPrice]_vars

-----------------------------------------------------------------------------
(* Properties of the price filter *)

\* What a price text is worth per person and month, in units of 1/1200 of a
\* pound, read off the text by hand; -1 for a text that states no price in
\* one of the shapes "£P pp/pcm (...)", "£T pcm", "£W pw".
Worth(text) ==
    CASE text = T_1000_pcm    -> 1000 * 1200
      [] text = T_1500_pcm    -> 1500 * 1200
      [] text = T_2000_pcm    -> 2000 * 1200
      [] text = T_300_pw      -> 1300 * 1200
      [] text = T_350_pw      -> 1820000
      [] text = T_1c500_pcm   -> 1500 * 1200
      [] text = T_1500d50_pcm -> 1800600
      [] text = T_pp_1500     -> 1500 * 1200
      [] text = T_pp_1501     -> 1501 * 1200
      [] text = T_pp_1c250    -> 1250 * 1200
      [] OTHER                -> -1

CapAbsent(c) == c.is_none \/ c.value = 0

\* C14: filter_by_price returns its input unchanged when no cap is set (None,
\* or the 0 that stands for an empty cell of the sheet); otherwise it returns,
\* in input order, exactly the listings whose price per person and month is
\* at most the cap: a price at the cap passes and a weekly price counts for
\* 52/12 of its amount.
C14_FilterKeepsAtOrBelowCap ==
    ev.op = "filter_by_price" =>
        IF CapAbsent(ev.max_price_pp) THEN ev.result = ev.properties
        ELSE LET wanted(prop) == /\ Worth(prop.price) >= 0
                                 /\ Worth(prop.price) <= ev.max_price_pp.value * 1200
             IN  ev.result = SelectSeq(ev.properties, wanted)

\* With a cap of 1500, of 1000 pcm, 2000 pcm and 300 pw the first and the
\* last are kept.
C14_Witness ==
    /\ ev.op = "filter_by_price"
    /\ ev.max_price_pp = Cap(1500)
    /\ ev.properties = <<Property("u1", T_1000_pcm), Property("u1", T_2000_pcm),
                         Property("u1", T_300_pw)>>
    /\ ev.result = <<Property("u1", T_1000_pcm), Property("u1", T_300_pw)>>

\* C15: with a cap set, a listing whose price text cannot be parsed is not in
\* the result of filter_by_price, the call returns (it does not raise), and
\* the other listings are filtered as if that listing were not there.
C15_UnparsableDropped ==
    (ev.op = "filter_by_price" /\ ~CapAbsent(ev.max_price_pp)) =>
        LET readable(prop) == Worth(prop.price) >= 0
        IN  /\ \A i \in 1..Len(ev.result) : readable(ev.result[i])
            /\ ev.result = filter_by_price(ev.max_price_pp, SelectSeq(ev.properties, readable))

\* A listing without a price between two listings that pass.
C15_Witness ==
    /\ ev.op = "filter_by_price"
    /\ ev.max_price_pp = Cap(1500)
    /\ ev.properties = <<Property("u1", T_1000_pcm), Property("u1", T_not_found),
                         Property("u1", T_1500_pcm)>>
    /\ ev.result = <<Property("u1", T_1000_pcm), Property("u1", T_1500_pcm)>>

-----------------------------------------------------------------------------
(* Properties of the per-person price *)

\* What a reader takes from each line: the kind of price it shows, the
\* amount in pounds, and the bedroom count it tells (-1: none).
LineKind(line) ==
    IF line \in {N_2000_pcm, N_3001_pcm, N_1c500_pcm} THEN "pcm"
    ELSE IF line = N_300_pw THEN "pw"
    ELSE IF line = N_poa THEN "other"
    ELSE "none"

LineAmount(line) ==
    IF line = N_2000_pcm THEN 2000
    ELSE IF line = N_3001_pcm THEN 3001
    ELSE IF line = N_1c500_pcm THEN 1500
    ELSE IF line = N_300_pw THEN 300
    ELSE 0

LineBeds(line) ==
    IF line = N_4 THEN 4
    ELSE IF line = N_2_bed THEN 2
    ELSE IF line = N_3_Bedroom THEN 3
    ELSE IF line = N_0_bed THEN 0
    ELSE -1

\* The first line of the element showing a price, and the bedroom count of
\* the element (1 when no line tells it).
ShownPrice(lines) ==
    LET priced == { i \in 1..Len(lines) : LineKind(lines[i]) # "none" }
    IN  IF priced = {} THEN N_flat ELSE lines[Min(priced)]

ShownBeds(lines) ==
    LET telling == { i \in 1..Len(lines) : LineBeds(lines[i]) # -1 }
    IN  IF telling = {} THEN 1 ELSE LineBeds(lines[Min(telling)])

\* `text` is the canonical rendering of the monthly total `total` shared by
\* `b` people, the per-person amount being total/b to the nearest pound.
RendersShare(text, total, b) ==
    \E pp \in 0..total :
        /\ 2 * pp * b <= 2 * total + b
        /\ 2 * pp * b >= 2 * total - b
        /\ text = canonical(pp, total, b)

R_500_of_2000_4br == <<"£", "5", "0", "0", " ", "p", "p", "/", "p", "c", "m", " ", "(", "£", "2", "0", "0", "0", " ", "t", "o", "t", "a", "l", "/", "4", "b", "r", ")">>
R_2000_of_2000_1br == <<"£", "2", "0", "0", "0", " ", "p", "p", "/", "p", "c", "m", " ", "(", "£", "2", "0", "0", "0", " ", "t", "o", "t", "a", "l", "/", "1", "b", "r", ")">>
R_300_of_300_1br == <<"£", "3", "0", "0", " ", "p", "p", "/", "p", "c", "m", " ", "(", "£", "3", "0", "0", " ", "t", "o", "t", "a", "l", "/", "1", "b", "r", ")">>

\* C16: a weekly price W of an element with b bedrooms is normalized to the
\* monthly total W*52/12 shared by b, and the canonical rendering carries
\* that monthly total.
C16_WeeklyConvertedToMonthly ==
    (ev.op = "extract_price"
        /\ LineKind(ShownPrice(ev.lines)) = "pw"
        /\ ShownBeds(ev.lines) >= 1)
    => /\ ~ev.raised
       /\ RendersShare(ev.price,
                       (LineAmount(ShownPrice(ev.lines)) * 52) \div 12,
                       ShownBeds(ev.lines))

\* The weekly figure is rendered as if it were the monthly total.
C16_Witness ==
    /\ ev.op = "extract_price"
    /\ ev.lines = <<N_300_pw>>
    /\ ev.price = R_300_of_300_1br

\* C17: a monthly total T of an element with b bedrooms (1 when no line
\* tells the count) is rendered "£{pp} pp/pcm (£{T} total/{b}br)" with
\* pp = T/b in whole pounds.
C17_MonthlyShareRendered ==
    (ev.op = "extract_price"
        /\ LineKind(ShownPrice(ev.lines)) = "pcm"
        /\ ShownBeds(ev.lines) >= 1)
    => /\ ~ev.raised
       /\ ev.bedrooms = ShownBeds(ev.lines)
       /\ RendersShare(ev.price, LineAmount(ShownPrice(ev.lines)), ShownBeds(ev.lines))
       /\ (ev.lines = <<N_2000_pcm, N_4>> => ev.price = R_500_of_2000_4br)
       /\ (ev.lines = <<N_2000_pcm>> => ev.price = R_2000_of_2000_1br)

C17_Witness ==
    /\ ev.op = "extract_price"
    /\ ev.lines = <<N_2000_pcm, N_4>>
    /\ ev.bedrooms = 4
    /\ ev.price = R_500_of_2000_4br

-----------------------------------------------------------------------------
(* Properties of scrape_properties *)

\* The call met a failure that ends the extraction: the fetch or the parse
\* of the page failed, or no element of the page could be extracted.
ExtractionFailed ==
    \/ ev.site = "openrent" /\ ev.path # "ok"
    \/ ev.site = "rightmove" /\ ev.path \notin {"found", "TimeoutException"}
    \/ \A i \in 1..Len(ev.elements) : ev.elements[i].outcome \in {"None", "raises"}

Monthly12(site, element) ==
    IF site = "openrent"
    THEN IF element.outcome = "card" /\ Worth(element.text[1]) >= 0
         THEN Worth(element.text[1]) \div 100 ELSE -1
    ELSE IF element.outcome # "element" THEN -1
    ELSE IF LineKind(ShownPrice(element.text)) = "pcm"
         THEN 12 * LineAmount(ShownPrice(element.text))
    ELSE IF LineKind(ShownPrice(element.text)) = "pw"
         THEN 52 * LineAmount(ShownPrice(element.text))
    ELSE -1

Beds(site, element) ==
    IF site = "openrent" THEN 1 ELSE ShownBeds(element.text)

\* The url under which the listing of the element is returned.
ListingUrl(site, element) ==
    IF site = "openrent"
    THEN IF element.href = "empty" THEN "https://www.openrent.com" ELSE element.url
    ELSE IF element.href \in {"rightmove", "relative"} THEN element.url ELSE ""

\* The per-person monthly price of the element, to the nearest pound, is
\* at most `cap` pounds.
WithinCap(site, element, cap) ==
    /\ Monthly12(site, element) >= 0
    /\ Beds(site, element) >= 1
    /\ 2 * Monthly12(site, element) - 12 * Beds(site, element)
           <= 24 * cap * Beds(site, element)

\* C19: with a price cap, every listing scrape_properties returns has a
\* per-person monthly price of at most the cap.
C19_ReturnedWithinCap ==
    (ev.op = "scrape_properties" /\ ~CapAbsent(ev.max_price_pp))
    => \A i \in 1..Len(ev.result) :
         \E j \in 1..Len(ev.elements) :
            /\ ListingUrl(ev.site, ev.elements[j]) = ev.result[i].url
            /\ WithinCap(ev.site, ev.elements[j], ev.max_price_pp.value)

\* A weekly price of 300 (1300 a month) returned under a cap of 1000.
C19_Witness ==
    /\ ev.op = "scrape_properties"
    /\ ev.site = "rightmove"
    /\ ev.max_price_pp = Cap(1000)
    /\ Len(ev.elements) = 1
    /\ ev.elements[1].text = <<N_300_pw>>
    /\ Len(ev.result) = 1
    /\ ev.result[1].price = R_300_of_300_1br

-----------------------------------------------------------------------------
(* Properties of the configuration ids *)

\* C20: two loads of the sheet give the same config_id to the same url, also
\* when rows were inserted, removed or reordered between them.
C20_ConfigIdFromUrlAlone ==
    ev.op = "load_search_configs"
    => \A i \in 1..Len(ev.configs), j \in 1..Len(ev.configs_after) :
         ev.configs[i].url = ev.configs_after[j].url
            => ev.configs[i].config_id = ev.configs_after[j].config_id

\* The row above the search s2 is removed and the search gets another id.
C20_Witness ==
    /\ ev.op = "load_search_configs"
    /\ ev.records = <<rowA, rowB>>
    /\ ev.records_after = <<rowB>>
    /\ ev.configs[2].config_id = config_id(1, "s2")
    /\ ev.configs_after[1].config_id = config_id(0, "s2")

-----------------------------------------------------------------------------
(* Cycles over sheets with rows that are not eligible *)

rowNoChats == [url |-> "s3", site |-> "openrent", chats |-> <<>>,     active |-> TRUE]
rowNoUrl   == [url |-> "",   site |-> "openrent", chats |-> <<"k1">>, active |-> TRUE]
rowNoSite  == [url |-> "s3", site |-> "",         chats |-> <<"k1">>, active |-> TRUE]
rowOff     == [url |-> "s3", site |-> "openrent", chats |-> <<"k1">>, active |-> FALSE]

\* Sheets in which rows without chat ids, without url, without site or
\* switched off stand before, after and without rows that are complete.
SheetsWithIneligible ==
    { <<rowNoChats, rowA>>, <<rowNoUrl, rowA>>, <<rowNoSite, rowA>>, <<rowOff, rowA>>,
      <<rowA, rowOff>>, <<rowOff>>, <<rowOff, rowU>> }

LoadSheetWithIneligible == LoadConfigsFrom(SheetsWithIneligible)

NextSheet ==
    \/ LoadSheetWithIneligible
    \/ UnsupportedSite
    \/ Scrape
    \/ ScrapeRaises
    \/ Dedup
    \/ DedupRaises
    \/ Notify
    \/ NotifyRaises
    \/ Summary
    \/ SummaryRaises
    \/ Evict
    \/ EvictRaises
    \/ CycleDone

SpecSheet == InitFields /\ [][NextSheet]_vars

\* A row as the claim reads it: eligible when it has chat ids, a url and a
\* site and is active.
Eligible(record) ==
    record.chats # <<>> /\ record.url # "" /\ record.site # "" /\ record.active

\* The config ids of the rows that are not eligible.
IneligibleIds ==
    UNION { { config_id(i - 1, s[i].url) : i \in { j \in 1..Len(s) : ~Eligible(s[j]) } } :
            s \in SheetsWithIneligible }

\* C21: a row without chat ids, without url, without site or not active is
\* never processed: it is not among the configurations of a cycle, no
\* scrape, ledger call or notification is made for its config id, and no
\* ledger entry is stored under it.
C21_IneligibleNeverProcessed ==
    /\ \A i \in 1..Len(configs) : configs[i].config_id \notin IneligibleIds
    /\ \A i \in 1..Len(store.rows) : store.rows[i].cfg \notin IneligibleIds
    /\ "cfg" \in DOMAIN ev => ev.cfg \notin IneligibleIds

\* A cycle over a sheet whose first row is switched off has processed the
\* second row only, recorded and notified a listing and completed.
C21_Witness ==
    /\ pc = "done"
    /\ Len(configs) = 1
    /\ configs[1].config_id = config_id(1, "s1")
    /\ Len(outcome) = 1
    /\ outcome[1] = "ok"
    /\ store.rows # <<>>

-----------------------------------------------------------------------------
(* Properties of the start-up migration *)

Pairs(rows) == { <<rows[i].url, rows[i].cfg>> : i \in 1..Len(rows) }

\* C22: a migration that runs to its end loses no entry: the copy puts every
\* (property_url, search_config_id) pair of the legacy table into the new
\* table, the legacy table is dropped only when the new one holds all its
\* pairs, and the rename makes the new table, with the composite constraint,
\* the ledger.
C22_MigrationKeepsEveryPair ==
    [][ /\ MigCopy => /\ Pairs(store.rows) \subseteq Pairs(storeNew'.rows)
                      /\ UniqueKey(storeNew'.rows)
        /\ MigDrop => Pairs(store.rows) \subseteq Pairs(storeNew.rows)
        /\ MigRename => /\ store'.schema = "composite"
                        /\ store'.rows = storeNew.rows
                        /\ UniqueKey(store'.rows) ]_vars

\* The migration of a legacy table of two entries has ended.
C22_Witness ==
    /\ ev.op = "mig_rename"
    /\ pc = "idle"
    /\ store.schema = "composite"
    /\ Pairs(store.rows) = { <<"u1", cfgA>>, <<"u2", cfgB>> }

\* C23: the migration is transactional: at no point from its start to its
\* end, and so after a crash at any of these points, is the table
\* seen_properties absent or without the entries it had before.
C23_TableNeverAbsent ==
    (storeNew.exists \/ pc \in {"mig_create", "mig_copy", "mig_drop", "mig_rename"})
    => /\ store.schema # "none"
       /\ Pairs(storeNew.rows) \subseteq Pairs(store.rows)

\* The process stopped between DROP TABLE and ALTER TABLE ... RENAME: the
\* database has no table seen_properties and the entries are in
\* seen_properties_new.
C23_Witness ==
    /\ pc = "init"
    /\ ev.op = "stop"
    /\ store = NoTable
    /\ storeNew.exists
    /\ storeNew.rows # <<>>

\* C24: after a crash at any step of the migration the next start-up ends
\* with the ledger under the composite constraint and holding every pair of
\* the store from before the migration.
C24_RestartCompletesMigration ==
    (pc = "idle" /\ ev.op \in {"init", "mig_rename"})
    => /\ store.schema = "composite"
       /\ Pairs(storeNew.rows) \subseteq Pairs(store.rows)

\* The start-up after a crash between DROP TABLE and the rename has ended:
\* the ledger is a new empty table and the entries are left behind in
\* seen_properties_new.
C24_Witness ==
    /\ pc = "idle"
    /\ ev.op = "init"
    /\ ~ev.migrate
    /\ store = [schema |-> "composite", rows |-> <<>>]
    /\ storeNew.exists
    /\ Pairs(storeNew.rows) = { <<"u1", cfgA>>, <<"u2", cfgB>> }

-----------------------------------------------------------------------------
(* Properties of a failed start-up *)

\* C25: when the initialization of the ledger or its migration fails, the
\* process exits: it loads no configuration, runs no cycle, calls no scraper
\* and sends nothing; the next step is the start of another process.
C25_FailedStartupExits ==
    [][ /\ ev'.op = "startup_failed" => /\ pc' = "exited"
                                        /\ configs' = <<>>
                                        /\ store' = store
        /\ (pc = "exited" /\ ev.op = "startup_failed")
           => /\ pc' = "init"
              /\ ev'.op = "stop"
              /\ store' = store ]_vars

\* The migration failed after the copy and the process has exited.
C25_Witness ==
    /\ pc = "exited"
    /\ ev.op = "startup_failed"
    /\ ev.at = "mig_drop"
    /\ store.schema = "legacy"

-----------------------------------------------------------------------------
(* Properties of the listing urls *)

\* C26: every listing scrape_properties returns has a url that is not empty.
C26_ReturnedUrlNotEmpty ==
    ev.op = "scrape_properties"
    => \A i \in 1..Len(ev.result) : ev.result[i].url # ""

\* A Rightmove element without a link, whose first line is longer than five
\* characters, is returned as a listing with the empty url.
C26_Witness ==
    /\ ev.op = "scrape_properties"
    /\ ev.site = "rightmove"
    /\ Len(ev.elements) = 1
    /\ ev.elements[1].href = "none"
    /\ ev.elements[1].text = <<N_2000_pcm, N_4>>
    /\ Len(ev.result) = 1
    /\ ev.result[1].url = ""


-----------------------------------------------------------------------------
(* Properties of the detection of the legacy schema *)

\* C27: the start-up decides to migrate exactly when the table it finds is
\* declared with the single-column UNIQUE; on a table declared with the
\* composite UNIQUE, migrated or freshly created, it runs no step of the
\* migration and leaves every entry as it was.
C27_DetectAndMigrateIdempotent ==
    [][InitDatabase =>
        /\ store.schema = "legacy" =>
              /\ _needs_migration(store)
              /\ pc' = "mig_create"
        /\ store.schema = "composite" =>
              /\ ~_needs_migration(store)
              /\ pc' = "idle"
              /\ store' = store
              /\ storeNew' = storeNew
        /\ store.schema = "none" =>
              /\ ~_needs_migration(store')
              /\ pc' = "idle"
              /\ store'.rows = <<>>]_vars

\* A process started again on a store that an earlier process migrated, with
\* entries in it, has gone through its start-up.
C27_Witness ==
    /\ ev.op = "init"
    /\ ~ev.migrate
    /\ pc = "idle"
    /\ store.schema = "composite"
    /\ Len(store.rows) > 0


-----------------------------------------------------------------------------
(* Properties of a url scraped more than once in one run *)

Occurrences(seq, x) == { i \in 1..Len(seq) : seq[i] = x }

\* C29: in one run of _process_search_config, a url that the scraper returned
\* several times is one listing: once the loop over the scraped listings has
\* passed an occurrence of it, the ledger holds exactly one entry for the url
\* under the configuration, and the url stands at most once among the
\* listings to notify, so that it is notified at most once.
C29_RepeatedUrlIsOneListing ==
    pc \in {"dedup", "notify", "summary"} =>
        \A u \in Range(properties) :
            /\ Cardinality(Occurrences(new_properties, u)) <= 1
            /\ Occurrences(properties, u) \cap 1..(propIdx - 1) # {} =>
                  Cardinality(EntriesOf(store.rows, u, cur.config_id)) = 1
            /\ pc = "summary" /\ u \in Range(new_properties) =>
                  <<cur.config_id, u>> \in runLog.notified

\* The scraper returned one new url twice, both occurrences have been through
\* the first loop, and the url has been notified.
C29_Witness ==
    /\ pc = "summary"
    /\ Len(properties) = 2
    /\ properties[1] = properties[2]
    /\ new_properties = <<properties[1]>>
    /\ ev.op = "notify"
    /\ ev.url = properties[1]


-----------------------------------------------------------------------------
(* Cycles in test mode and in real mode *)

\* A started process whose --test-mode flag is either way.
InitDryRun == Started /\ test_mode \in BOOLEAN /\ ev = [op |-> "none"]

NextDryRun ==
    \/ LongTick
    \/ LoadConfigs
    \/ UnsupportedSite
    \/ Scrape
    \/ ScrapeRaises
    \/ Dedup
    \/ DedupRaises
    \/ Notify
    \/ NotifyRaises
    \/ Summary
    \/ SummaryRaises
    \/ Evict
    \/ EvictRaises
    \/ CycleDone

SpecDryRun == InitDryRun /\ [][NextDryRun]_vars

\* C30: what a cycle leaves in the ledger does not depend on the test mode.
\* In either mode a turn of the first loop leaves the listing recorded, a new
\* one with the time of the cycle; the notifications, sent, failed or
\* printed, write nothing to the ledger and are followed by the same next
\* configuration or by the eviction; and in test mode nothing is delivered.
C30_LedgerIndependentOfTestMode ==
    [][/\ ev'.op = "dedup" =>
             LET at == EntriesOf(store'.rows, ev'.url, ev'.cfg)
             IN  /\ Cardinality(at) = 1
                 /\ ev'.new => \A i \in at : /\ store'.rows[i].first_seen = now
                                             /\ store'.rows[i].last_seen = now
                 /\ \A r \in Range(store.rows) : r \in Range(store'.rows)
                 /\ Len(store'.rows) = Len(store.rows) + (IF ev'.new THEN 1 ELSE 0)
       /\ pc \in {"notify", "summary"} =>
             /\ store' = store
             /\ pc' \notin {"notify", "summary"} =>
                   /\ pc' = (IF cfgIdx < Len(configs) THEN "config" ELSE "evict")
                   /\ cfgIdx' = cfgIdx + 1
             /\ test_mode =>
                   /\ ev'.op \in {"notify", "summary"}
                   /\ ev'.attempted = {}]_vars

\* A cycle in test mode has printed the notification of a new listing that
\* the ledger holds, recorded at the time of the cycle.
C30_Witness ==
    /\ test_mode
    /\ ev.op = "notify"
    /\ ev.attempted = {}
    /\ \E i \in EntriesOf(store.rows, ev.url, ev.cfg) : store.rows[i].first_seen = now

=============================================================================
